---- MODULE Spec2Model ----
(***************************************************************************)
(* A model of performance-tracker (src/app.py): the Streamlit dashboard    *)
(* (lines 1-117) and the console tracker performance_pro.py (lines         *)
(* 119-368), which share one JSON file, performance_data.json.             *)
(*                                                                         *)
(* Amounts are Python floats in the source.  Every amount the model uses   *)
(* is an integer number of yuan far below 2^53, where float arithmetic is  *)
(* exact, so amounts are modelled as integers; NaN, infinities and         *)
(* fractional amounts are outside the model.                               *)
(*                                                                         *)
(* Text (JSON object keys, console input) is a sequence of one-character   *)
(* strings, so that str(month) and int(key) are computed, not assumed.     *)
(***************************************************************************)
EXTENDS Integers, Sequences, FiniteSets, TLC

VARIABLES
    file,               \* content of performance_data.json
    mode,               \* which front-end process is running: idle, console, dashboard
    pc,                 \* console: the prompt run() is blocked on, or exited / crashed
    records,            \* console: PerformanceTracker.records
    cumulative_profit,  \* console: PerformanceTracker.cumulative_profit
    total_deductions,   \* console: PerformanceTracker.total_deductions
    month_to_edit,      \* console: local of _handle_edit_entry across its prompts
    final_summary,      \* console: what _display_final_summary printed
    session,            \* dashboard: st.session_state ('records' present or not)
    page,               \* dashboard: what the last script run rendered
    out,                \* the message the last step surfaced to the user
    last,               \* the upsert the last step made, if it made one
    ops,                \* number of upserts made so far (bounded by MaxOps)
    write_failed,       \* a write of the file failed in the current session
    written,            \* the record set of the last successful write, if any
    external            \* the file present at the start was not written by a front-end

vars == <<file, mode, pc, records, cumulative_profit, total_deductions,
          month_to_edit, final_summary, session, page, out, last, ops,
          write_failed, written, external>>

-----------------------------------------------------------------------------
(* Config, src/app.py 11-20 and 136-145 (the two classes are identical).   *)

START_MONTH == 2
END_MONTH == 12
MONTHLY_TARGET == 180000
ANNUAL_TARGET == 2300000
SURPLUS_BONUS_THRESHOLD == 100000
SURPLUS_BONUS_AMOUNT == 10000

(* Bounds of the exploration. *)
MaxOps == 3        \* upserts (console E/M, dashboard save) per behaviour
MaxTiers == 3      \* bonus inputs reach MaxTiers thresholds around the target

-----------------------------------------------------------------------------
(* Text: str(int) and int(str).                                            *)

Digits == <<"0", "1", "2", "3", "4", "5", "6", "7", "8", "9">>

IsDigit(c) == \E d \in 1..10 : Digits[d] = c

DigitVal(c) == (CHOOSE d \in 1..10 : Digits[d] = c) - 1

\* A variant of NatToStr that emits the digits least significant first.
RECURSIVE NatToStr_reversed(_)
NatToStr_reversed(n) ==
    IF n < 10 THEN <<Digits[n + 1]>>
    ELSE <<Digits[(n % 10) + 1]>> \o NatToStr_reversed(n \div 10)

RECURSIVE NatToStr(_)
NatToStr(n) ==
    IF n < 10 THEN <<Digits[n + 1]>>
    ELSE NatToStr(n \div 10) \o <<Digits[(n % 10) + 1]>>

\* str(k) as json.dump applies it to an int key.
IntToStr(n) == IF n < 0 THEN <<"-">> \o NatToStr(-n) ELSE NatToStr(n)

RECURSIVE DigitsToNat(_)
DigitsToNat(s) ==
    IF s = <<>> THEN 0
    ELSE 10 * DigitsToNat(SubSeq(s, 1, Len(s) - 1)) + DigitVal(s[Len(s)])

Unsigned(s) == IF s # <<>> /\ s[1] \in {"-", "+"} THEN Tail(s) ELSE s

\* A variant of IsNumber that takes empty text for a number (zero).
IsNumber_empty_ok(s) ==
    \A i \in 1..Len(Unsigned(s)) : IsDigit(Unsigned(s)[i])

\* int(s) / float(s) succeed: an optional sign and at least one digit.
\* (Python also accepts surrounding blanks, underscores and, for float,
\* fractions and exponents; the inputs of the model contain none.)
IsNumber(s) ==
    /\ Unsigned(s) # <<>>
    /\ \A i \in 1..Len(Unsigned(s)) : IsDigit(Unsigned(s)[i])

\* The value of int(s) / float(s) when IsNumber(s).
ParseInt(s) ==
    IF s # <<>> /\ s[1] = "-" THEN 0 - DigitsToNat(Unsigned(s))
    ELSE DigitsToNat(Unsigned(s))

\* str.upper() on the one-letter commands the model types.
Upper(s) ==
    [i \in 1..Len(s) |->
        CASE s[i] = "e" -> "E" [] s[i] = "m" -> "M" [] s[i] = "q" -> "Q"
          [] OTHER -> s[i]]

-----------------------------------------------------------------------------
(* Records and aggregates.                                                 *)

NoRecords == <<>>

Months == START_MONTH..END_MONTH

\* PerformanceTracker._update_month_record, 232-239; dashboard 59-66.
update_month_record(recs, month, actual_profit) ==
    (month :> [actual_profit |-> actual_profit,
               performance_diff |-> actual_profit - MONTHLY_TARGET])
    @@ recs

\* A record read from the file is a dict that may lack a field.
WellFormed(rec) == DOMAIN rec = {"actual_profit", "performance_diff"}

Min(S) == CHOOSE x \in S : \A y \in S : x <= y
Max(S) == CHOOSE x \in S : \A y \in S : x >= y

\* sorted(self.records.keys())
RECURSIVE Sorted(_)
Sorted(S) == IF S = {} THEN <<>> ELSE <<Min(S)>> \o Sorted(S \ {Min(S)})

Abs(x) == IF x < 0 THEN 0 - x ELSE x

\* PerformanceTracker._recalculate_totals, 211-221: the loop over the sorted
\* months, started from (0, 0).  Defined when every record is well formed.
RECURSIVE RecalcLoop(_, _, _)
RecalcLoop(recs, months, acc) ==
    IF months = <<>> THEN acc
    ELSE LET record == recs[Head(months)]
         IN  RecalcLoop(recs, Tail(months),
                 [cumulative_profit |-> acc.cumulative_profit + record.actual_profit,
                  total_deductions |->
                      IF record.performance_diff < 0
                      THEN acc.total_deductions + Abs(record.performance_diff)
                      ELSE acc.total_deductions])

\* A variant of recalculate_totals that adds performance_diff without abs().
recalculate_totals_no_abs(recs) ==
    LET totals == RecalcLoop(recs, Sorted(DOMAIN recs),
                             [cumulative_profit |-> 0, total_deductions |-> 0])
    IN  [totals EXCEPT !.total_deductions = 0 - totals.total_deductions]

recalculate_totals(recs) ==
    RecalcLoop(recs, Sorted(DOMAIN recs),
               [cumulative_profit |-> 0, total_deductions |-> 0])

\* Whether recalculating (console 219-220) or summing (dashboard 75-76)
\* raises KeyError.
RaisesKeyError(recs) == \E m \in DOMAIN recs : ~WellFormed(recs[m])

-----------------------------------------------------------------------------
(* The persisted file.  kind is absent (no file), invalid_json (content    *)
(* json.load rejects), not_object (valid JSON whose top level is no        *)
(* object) or object; obj lists an object's items in file order, each a    *)
(* key (text) and a value (a dict with some of the two numeric fields).    *)

Absent == [kind |-> "absent", obj |-> <<>>]
InvalidJson == [kind |-> "invalid_json", obj |-> <<>>]
NotObject == [kind |-> "not_object", obj |-> <<>>]
Object(items) == [kind |-> "object", obj |-> items]

\* json.dump(records, f, ...), 32 and 207: int keys are written as str(k).
\* A dict is written in insertion order; the order does not survive a load
\* of distinct keys, and the model writes ascending month order.
Dump(recs) ==
    LET months == Sorted(DOMAIN recs)
    IN  Object([i \in 1..Len(months) |->
                   [k |-> IntToStr(months[i]), v |-> recs[months[i]]]])

\* {int(k): v for k, v in json.load(f).items()}, 27 and 194: items are taken
\* in file order, a later item replaces an earlier one with the same int
\* key, and the first key int() rejects raises ValueError.
RECURSIVE IntKeys(_, _)
IntKeys(items, acc) ==
    IF items = <<>> THEN [ok |-> TRUE, records |-> acc]
    ELSE IF ~IsNumber(Head(items).k) THEN [ok |-> FALSE, records |-> NoRecords]
    ELSE IntKeys(Tail(items), (ParseInt(Head(items).k) :> Head(items).v) @@ acc)

\* load_data, 24-28 (dashboard): no exception is handled.
load_data(f) ==
    CASE f.kind = "absent" -> [status |-> "ok", records |-> NoRecords]
      [] f.kind = "invalid_json" ->             \* json.JSONDecodeError
            [status |-> "exception", records |-> NoRecords]
      [] f.kind = "not_object" ->               \* AttributeError: .items()
            [status |-> "exception", records |-> NoRecords]
      [] OTHER ->
            IF IntKeys(f.obj, NoRecords).ok
            THEN [status |-> "ok", records |-> IntKeys(f.obj, NoRecords).records]
            ELSE [status |-> "exception", records |-> NoRecords]  \* ValueError

\* PerformanceTracker.__init__ and _load_data, 182-201: only JSONDecodeError
\* and IOError are handled; AttributeError, ValueError (int) and KeyError
\* (_recalculate_totals, inside the try) end the process.
Tracker_load_data(f) ==
    LET fresh == [status |-> "new", records |-> NoRecords,
                  cumulative_profit |-> 0, total_deductions |-> 0]
        parsed == IntKeys(f.obj, NoRecords)
    IN  CASE f.kind = "absent" -> fresh
          [] f.kind = "invalid_json" -> [fresh EXCEPT !.status = "recovered"]
          [] f.kind = "not_object" -> [fresh EXCEPT !.status = "crash"]
          [] OTHER ->
                IF ~parsed.ok \/ RaisesKeyError(parsed.records)
                THEN [fresh EXCEPT !.status = "crash"]
                ELSE [status |-> "ok", records |-> parsed.records,
                      cumulative_profit |->
                          recalculate_totals(parsed.records).cumulative_profit,
                      total_deductions |->
                          recalculate_totals(parsed.records).total_deductions]

\* How a write of the file can end: done; open(DATA_FILE, 'w') raises
\* IOError and the file is as it was; or the write raises IOError after
\* open() truncated the file, which leaves an incomplete JSON text.
WriteOutcomes == {"ok", "open_failed", "truncated"}

\* A variant of WriteFile that creates the file but never overwrites one.
WriteFile_exclusive(f, recs, outcome) ==
    IF outcome = "ok" /\ f.kind = "absent" THEN Dump(recs) ELSE f

\* with open(DATA_FILE, 'w') as f: json.dump(records, f), 30-32 and 206-207.
WriteFile(f, recs, outcome) ==
    CASE outcome = "ok" -> Dump(recs)
      [] outcome = "open_failed" -> f
      [] OTHER -> InvalidJson

\* The record set the file was last written with in full, after a write.
Written(before, recs, outcome) ==
    CASE outcome = "ok" -> [any |-> TRUE, records |-> recs]
      [] outcome = "open_failed" -> before
      [] OTHER -> [any |-> FALSE, records |-> NoRecords]

-----------------------------------------------------------------------------
(* The year-end bonus.                                                     *)

NoReport ==
    [shown |-> FALSE, eligible |-> FALSE, clawback |-> 0,
     surplus_bonus |-> 0, total_bonus |-> 0]

NotEligible ==
    [shown |-> TRUE, eligible |-> FALSE, clawback |-> 0,
     surplus_bonus |-> 0, total_bonus |-> 0]

\* A variant of display_final_summary that requires more than the target.
display_final_summary_strict(cumulative, deductions) ==
    IF cumulative > ANNUAL_TARGET
    THEN [shown |-> TRUE, eligible |-> TRUE, clawback |-> deductions,
          surplus_bonus |->
              ((cumulative - ANNUAL_TARGET) \div SURPLUS_BONUS_THRESHOLD)
                  * SURPLUS_BONUS_AMOUNT,
          total_bonus |->
              deductions
              + ((cumulative - ANNUAL_TARGET) \div SURPLUS_BONUS_THRESHOLD)
                    * SURPLUS_BONUS_AMOUNT]
    ELSE NotEligible

\* PerformanceTracker._display_final_summary, 350-364.
display_final_summary(cumulative, deductions) ==
    IF cumulative >= ANNUAL_TARGET
    THEN LET clawback_bonus == deductions
             surplus_profit == cumulative - ANNUAL_TARGET
             surplus_bonus ==
                 (surplus_profit \div SURPLUS_BONUS_THRESHOLD) * SURPLUS_BONUS_AMOUNT
         IN  [shown |-> TRUE, eligible |-> TRUE, clawback |-> clawback_bonus,
              surplus_bonus |-> surplus_bonus,
              total_bonus |-> clawback_bonus + surplus_bonus]
    ELSE NotEligible

\* The dashboard's bonus panel, 105-117.
bonus_panel(cumulative, deductions) ==
    IF cumulative >= ANNUAL_TARGET
    THEN LET clawback == deductions
             surplus ==
                 ((cumulative - ANNUAL_TARGET) \div SURPLUS_BONUS_THRESHOLD)
                     * SURPLUS_BONUS_AMOUNT
         IN  [shown |-> TRUE, eligible |-> TRUE, clawback |-> clawback,
              surplus_bonus |-> surplus, total_bonus |-> clawback + surplus]
    ELSE NotEligible

\* PerformanceTracker._get_next_month, 280-285.
get_next_month(recs) ==
    IF recs = NoRecords THEN START_MONTH ELSE Max(DOMAIN recs) + 1

\* The dashboard's default selector index, 45-52.
all_months == [i \in 1..(END_MONTH - START_MONTH + 1) |-> START_MONTH + i - 1]

next_month_index(recs) ==
    IF recs # NoRecords THEN Cardinality(DOMAIN recs) % Len(all_months) ELSE 0

\* The dashboard's completeness check, 103.
year_complete(recs) == Cardinality(DOMAIN recs) >= END_MONTH - START_MONTH + 1

\* The dashboard's aggregates, 75-76: sums over records.values().
RECURSIVE SumProfit(_, _)
SumProfit(recs, months) ==
    IF months = {} THEN 0
    ELSE LET m == CHOOSE x \in months : TRUE
         IN  recs[m].actual_profit + SumProfit(recs, months \ {m})

RECURSIVE SumDeductions(_, _)
SumDeductions(recs, months) ==
    IF months = {} THEN 0
    ELSE LET m == CHOOSE x \in months : TRUE
         IN  (IF recs[m].performance_diff < 0
              THEN Abs(recs[m].performance_diff) ELSE 0)
             + SumDeductions(recs, months \ {m})

-----------------------------------------------------------------------------
(* What the user can type or select.                                       *)

\* Answers to the console's main prompt (265-267).
CommandInputs == {<<"E">>, <<"e">>, <<"M">>, <<"Q">>, <<"X">>}

\* Answers to "month to edit" (304): the first two months of the span, a
\* middle one and the last, a month outside the span, a negative month, and
\* text int() rejects.
MonthInputs ==
    {IntToStr(START_MONTH), IntToStr(START_MONTH + 1), <<"5">>,
     IntToStr(END_MONTH), <<"9", "9">>, <<"-", "1">>, <<"a">>, <<>>}

\* Answers to a profit prompt (227), in units of 10,000: a loss, a profit
\* above the monthly target, and text float() rejects.
ProfitInputs == {<<"-", "2">>, <<"3", "0">>, <<"x">>, <<>>}

\* Values of the dashboard's number_input (55), in units of 10,000.
ProfitValues == {-2, 30}

\* The options of the selectbox (54) the user picks, by position in
\* all_months: the first two and the last.
SelectedOptions == {1, 2, END_MONTH - START_MONTH + 1}

\* The selectbox label of a month (45) and the month read back from it (58).
\* "yue" stands for the one character U+6708 that ends a label.
MonthLabel(m) == IntToStr(m) \o <<"yue">>
LabelMonth(label) == ParseInt(SelectSeq(label, LAMBDA c : c # "yue"))

-----------------------------------------------------------------------------
(* The state before any front-end runs.                                    *)

Rec(a) == [actual_profit |-> a, performance_diff |-> a - MONTHLY_TARGET]

\* A file holding months lo..hi, each with actual_profit a.
FilledFile(lo, hi, a) ==
    Object([i \in 1..(hi - lo + 1) |-> [k |-> IntToStr(lo + i - 1), v |-> Rec(a)]])

\* Files found at start that no front-end of this run wrote.
ExternalFiles ==
    { InvalidJson,
      NotObject,
      Object(<<[k |-> <<"a", "b">>, v |-> Rec(300000)]>>),
      Object(<<[k |-> <<"2">>, v |-> [actual_profit |-> 300000]]>>),
      Object(<<[k |-> <<"2">>,
                v |-> [actual_profit |-> 300000, performance_diff |-> -80000]]>>),
      Object(<<[k |-> <<"0", "2">>, v |-> Rec(300000)],
               [k |-> <<"2">>, v |-> Rec(-20000)],
               [k |-> <<"-", "1">>, v |-> Rec(300000)]>>),
      FilledFile(START_MONTH, END_MONTH - 1, ANNUAL_TARGET \div 10) }

NoPage ==
    [status |-> "none", widgets |-> FALSE, next_month_index |-> 0,
     cumulative_profit |-> 0, total_deductions |-> 0, panel |-> NoReport]

NoSession == [has |-> FALSE, records |-> NoRecords]

NoInput == [op |-> "none", month |-> 0, actual_profit |-> 0, write |-> "none"]

NothingWritten == [any |-> FALSE, records |-> NoRecords]

Init ==
    /\ file \in {Absent} \cup ExternalFiles
    /\ external = (file # Absent)
    /\ mode = "idle"
    /\ pc = "none"
    /\ records = NoRecords
    /\ cumulative_profit = 0
    /\ total_deductions = 0
    /\ month_to_edit = 0
    /\ final_summary = NoReport
    /\ session = NoSession
    /\ page = NoPage
    /\ out = {}
    /\ last = NoInput
    /\ ops = 0
    /\ write_failed = FALSE
    /\ written = NothingWritten

-----------------------------------------------------------------------------
(* The console tracker, performance_pro.py.  The process blocks on input   *)
(* at three prompts; each action runs from one prompt to the next.         *)

\* The top of run()'s loop, 257-263: either the final summary and the end,
\* or the main prompt.
run_loop_top(recs, cumulative, deductions) ==
    IF get_next_month(recs) > END_MONTH
    THEN [pc |-> "exited",
          final_summary |-> display_final_summary(cumulative, deductions)]
    ELSE [pc |-> "main", final_summary |-> NoReport]

\* A variant of Tracker_save_messages that swallows the IOError in silence.
Tracker_save_messages_silent(outcome) == {}

\* PerformanceTracker._save_data, 203-209: IOError is caught and reported.
Tracker_save_messages(outcome) ==
    IF outcome = "ok" THEN {} ELSE {"save_error"}

\* python performance_pro.py, 366-368: __init__ (with _load_data), then
\* run() up to its first prompt.
ConsoleStart ==
    /\ mode = "idle"
    /\ LET loaded == Tracker_load_data(file)
           top == run_loop_top(loaded.records, loaded.cumulative_profit,
                               loaded.total_deductions)
       IN  /\ mode' = "console"
           /\ records' = loaded.records
           /\ cumulative_profit' = loaded.cumulative_profit
           /\ total_deductions' = loaded.total_deductions
           /\ IF loaded.status = "crash"
              THEN /\ pc' = "crashed"
                   /\ final_summary' = NoReport
                   /\ out' = {"traceback"}
              ELSE /\ pc' = top.pc
                   /\ final_summary' = top.final_summary
                   /\ out' = CASE loaded.status = "ok" -> {"loaded"}
                               [] loaded.status = "recovered" -> {"load_warning"}
                               [] OTHER -> {"no_history"}
    /\ last' = NoInput
    /\ UNCHANGED <<file, month_to_edit, session, page, ops, write_failed,
                   written, external>>

\* An answer to the main prompt, 265-276, and for M the head of
\* _handle_edit_entry, 298-300.
ConsoleCommand(text) ==
    /\ mode = "console"
    /\ pc = "main"
    /\ LET action == Upper(text)
       IN  CASE action = <<"E">> ->
                    /\ pc' = "new_profit"
                    /\ out' = {}
                    /\ last' = NoInput
             [] action = <<"M">> /\ records = NoRecords ->
                    /\ pc' = run_loop_top(records, cumulative_profit,
                                          total_deductions).pc
                    /\ out' = {"no_history_to_edit"}
                    /\ last' = NoInput
             [] action = <<"M">> /\ records # NoRecords ->
                    /\ pc' = "edit_month"
                    /\ out' = {}
                    /\ last' = NoInput
             [] action = <<"Q">> ->
                    /\ pc' = "exited"
                    /\ out' = {"farewell"}
                    /\ last' = NoInput
             [] OTHER ->
                    /\ pc' = run_loop_top(records, cumulative_profit,
                                          total_deductions).pc
                    /\ out' = {"invalid_command"}
                    /\ last' = NoInput
    /\ UNCHANGED <<file, mode, records, cumulative_profit, total_deductions,
                   month_to_edit, final_summary, session, page, ops,
                   write_failed, written, external>>

\* An answer to "month to edit", 303-310 and 321-322.
ConsoleEditMonth(text) ==
    /\ mode = "console"
    /\ pc = "edit_month"
    /\ IF ~IsNumber(text)                       \* int() raises ValueError
       THEN /\ pc' = run_loop_top(records, cumulative_profit,
                                  total_deductions).pc
            /\ out' = {"invalid_month"}
            /\ last' = NoInput
            /\ UNCHANGED month_to_edit
       ELSE IF ParseInt(text) \notin DOMAIN records
       THEN /\ pc' = run_loop_top(records, cumulative_profit,
                                  total_deductions).pc
            /\ out' = {"month_missing"}
            /\ last' = NoInput
            /\ UNCHANGED month_to_edit
       ELSE /\ pc' = "edit_profit"
            /\ out' = {"current_profit"}
            /\ last' = NoInput
            /\ month_to_edit' = ParseInt(text)
    /\ UNCHANGED <<file, mode, records, cumulative_profit, total_deductions,
                   final_summary, session, page, ops, write_failed, written,
                   external>>

\* An answer to a profit prompt: _get_profit_input, 223-230, and on a number
\* the rest of _handle_new_entry, 291-294, or _handle_edit_entry, 313-319,
\* then the top of run()'s loop.
ConsoleProfit(text, outcome) ==
    /\ mode = "console"
    /\ pc \in {"new_profit", "edit_profit"}
    /\ IF ~IsNumber(text)                       \* float() raises ValueError
       THEN /\ out' = {"invalid_profit"}
            /\ last' = NoInput
            /\ UNCHANGED <<file, pc, records, cumulative_profit,
                           total_deductions, month_to_edit, final_summary, ops,
                           write_failed, written>>
       ELSE LET month == IF pc = "new_profit" THEN get_next_month(records)
                         ELSE month_to_edit
                actual_profit == ParseInt(text) * 10000
                recs == update_month_record(records, month, actual_profit)
                totals == recalculate_totals(recs)
                top == run_loop_top(recs, totals.cumulative_profit,
                                    totals.total_deductions)
            IN  /\ ops < MaxOps
                /\ records' = recs
                /\ cumulative_profit' = totals.cumulative_profit
                /\ total_deductions' = totals.total_deductions
                /\ file' = WriteFile(file, recs, outcome)
                /\ pc' = top.pc
                /\ final_summary' = top.final_summary
                /\ out' = {"month_updated"} \cup Tracker_save_messages(outcome)
                          \cup (IF pc = "edit_profit" THEN {"edit_saved"} ELSE {})
                /\ last' = [op |-> IF pc = "new_profit" THEN "entry" ELSE "edit",
                            month |-> month, actual_profit |-> actual_profit,
                            write |-> outcome]
                /\ ops' = ops + 1
                /\ write_failed' = (write_failed \/ outcome # "ok")
                /\ written' = Written(written, recs, outcome)
                /\ month_to_edit' = 0
    /\ UNCHANGED <<mode, session, page, external>>

\* The process has ended (normally or on an unhandled exception).
ConsoleEnd ==
    /\ mode = "console"
    /\ pc \in {"exited", "crashed"}
    /\ mode' = "idle"
    /\ pc' = "none"
    /\ records' = NoRecords
    /\ cumulative_profit' = 0
    /\ total_deductions' = 0
    /\ month_to_edit' = 0
    /\ final_summary' = NoReport
    /\ out' = {}
    /\ last' = NoInput
    /\ write_failed' = FALSE
    /\ UNCHANGED <<file, session, page, ops, written, external>>

-----------------------------------------------------------------------------
(* The dashboard, lines 35-117.  Streamlit runs the script top to bottom   *)
(* when the page is opened and again on every interaction; st.session_state*)
(* lives across the runs of one browser session.  An exception the script  *)
(* does not handle ends that run where it is raised: Streamlit shows it on *)
(* the page, and what the run had already stored in the session stays.     *)

\* One run of the script.  pressed: the run was triggered by the save
\* button, with the given selectbox label and number_input value.
script_run(sess, f, pressed, label, profit_input, outcome) ==
    LET loaded == IF sess.has THEN [status |-> "ok", records |-> sess.records]
                  ELSE load_data(f)                                 \* 40-41
        index == next_month_index(loaded.records)                   \* 49-52
        month == LabelMonth(label)                                  \* 58
        actual_profit == profit_input * 10000                       \* 59
        recs == IF pressed                                          \* 60-66
                THEN update_month_record(loaded.records, month, actual_profit)
                ELSE loaded.records
        saved == IF pressed THEN WriteFile(f, recs, outcome) ELSE f \* 68
        cumulative == SumProfit(recs, DOMAIN recs)                  \* 75
        deductions == SumDeductions(recs, DOMAIN recs)              \* 76
    IN  IF loaded.status = "exception"
        THEN [session |-> sess, file |-> f,
              page |-> [NoPage EXCEPT !.status = "exception"],
              out |-> {"traceback"}]
        ELSE IF pressed /\ outcome # "ok"
        THEN [session |-> [has |-> TRUE, records |-> recs], file |-> saved,
              page |-> [NoPage EXCEPT !.status = "exception", !.widgets = TRUE,
                                      !.next_month_index = index],
              out |-> {"traceback"}]
        ELSE IF RaisesKeyError(recs)
        THEN [session |-> [has |-> TRUE, records |-> recs], file |-> saved,
              page |-> [NoPage EXCEPT !.status = "exception", !.widgets = TRUE,
                                      !.next_month_index = index],
              out |-> {"traceback"} \cup (IF pressed THEN {"saved"} ELSE {})]
        ELSE [session |-> [has |-> TRUE, records |-> recs], file |-> saved,
              page |-> [status |-> "ok", widgets |-> TRUE,
                        next_month_index |-> index,
                        cumulative_profit |-> cumulative,
                        total_deductions |-> deductions,
                        panel |-> IF year_complete(recs)            \* 103
                                  THEN bonus_panel(cumulative, deductions)
                                  ELSE NoReport],
              out |-> IF pressed THEN {"saved"} ELSE {}]

\* A browser opens the page: a new session and its first run.
DashboardOpen ==
    /\ mode = "idle"
    /\ LET run == script_run(NoSession, file, FALSE, MonthLabel(START_MONTH),
                             0, "ok")
       IN  /\ session' = run.session
           /\ page' = run.page
           /\ out' = run.out
    /\ mode' = "dashboard"
    /\ last' = NoInput
    /\ UNCHANGED <<file, pc, records, cumulative_profit, total_deductions,
                   month_to_edit, final_summary, ops, write_failed, written,
                   external>>

\* A rerun that is not a save (a widget changed, the page was reloaded in
\* the same session).
DashboardRerun ==
    /\ mode = "dashboard"
    /\ LET run == script_run(session, file, FALSE, MonthLabel(START_MONTH),
                             0, "ok")
       IN  /\ session' = run.session
           /\ page' = run.page
           /\ out' = run.out
    /\ last' = NoInput
    /\ UNCHANGED <<file, mode, pc, records, cumulative_profit,
                   total_deductions, month_to_edit, final_summary, ops,
                   write_failed, written, external>>

\* The save button, 57-69: it exists once a run has drawn the sidebar.
DashboardSave(i, profit_input, outcome) ==
    /\ mode = "dashboard"
    /\ page.widgets
    /\ ops < MaxOps
    /\ LET run == script_run(session, file, TRUE, MonthLabel(all_months[i]),
                             profit_input, outcome)
       IN  /\ session' = run.session
           /\ page' = run.page
           /\ out' = run.out
           /\ file' = run.file
           /\ written' = Written(written, run.session.records, outcome)
    /\ last' = [op |-> "save", month |-> all_months[i],
                actual_profit |-> profit_input * 10000, write |-> outcome]
    /\ ops' = ops + 1
    /\ write_failed' = (write_failed \/ outcome # "ok")
    /\ UNCHANGED <<mode, pc, records, cumulative_profit, total_deductions,
                   month_to_edit, final_summary, external>>

\* The browser session ends.
DashboardClose ==
    /\ mode = "dashboard"
    /\ mode' = "idle"
    /\ session' = NoSession
    /\ page' = NoPage
    /\ out' = {}
    /\ last' = NoInput
    /\ write_failed' = FALSE
    /\ UNCHANGED <<file, pc, records, cumulative_profit, total_deductions,
                   month_to_edit, final_summary, ops, written, external>>

-----------------------------------------------------------------------------

Next ==
    \/ ConsoleStart
    \/ \E text \in CommandInputs : ConsoleCommand(text)
    \/ \E text \in MonthInputs : ConsoleEditMonth(text)
    \/ \E text \in ProfitInputs, outcome \in WriteOutcomes :
          ConsoleProfit(text, outcome)
    \/ ConsoleEnd
    \/ DashboardOpen
    \/ DashboardRerun
    \/ \E i \in SelectedOptions, profit_input \in ProfitValues,
          outcome \in WriteOutcomes : DashboardSave(i, profit_input, outcome)
    \/ DashboardClose

Spec == Init /\ [][Next]_vars

-----------------------------------------------------------------------------
(* The bonus computation on its own: both front-ends' computations applied *)
(* to the same pair (cumulative_profit, total_deductions).                 *)

\* Cumulative profits around the annual target, up to MaxTiers thresholds on
\* either side and one yuan off each, with 0, a loss and 2,450,001.
BonusCumulatives ==
    {0, 0 - SURPLUS_BONUS_THRESHOLD,
     ANNUAL_TARGET + SURPLUS_BONUS_THRESHOLD + SURPLUS_BONUS_THRESHOLD \div 2 + 1}
    \cup {ANNUAL_TARGET + k * SURPLUS_BONUS_THRESHOLD + d :
             k \in (0 - MaxTiers)..MaxTiers, d \in {-1, 0, 1}}

BonusDeductions == {0, SURPLUS_BONUS_AMOUNT \div 2, MONTHLY_TARGET}

InitBonus ==
    /\ cumulative_profit \in BonusCumulatives
    /\ total_deductions \in BonusDeductions
    /\ file = Absent
    /\ external = FALSE
    /\ mode = "idle"
    /\ pc = "none"
    /\ records = NoRecords
    /\ month_to_edit = 0
    /\ final_summary = NoReport
    /\ session = NoSession
    /\ page = NoPage
    /\ out = {}
    /\ last = NoInput
    /\ ops = 0
    /\ write_failed = FALSE
    /\ written = NothingWritten

\* The console's bonus section, 350-364, on the aggregates.
BonusConsole ==
    /\ ~final_summary.shown
    /\ final_summary' = display_final_summary(cumulative_profit, total_deductions)
    /\ UNCHANGED <<file, mode, pc, records, cumulative_profit,
                   total_deductions, month_to_edit, session, page, out, last,
                   ops, write_failed, written, external>>

\* The dashboard's bonus panel, 105-117, on the same aggregates.
BonusDashboard ==
    /\ ~page.panel.shown
    /\ page' = [page EXCEPT !.cumulative_profit = cumulative_profit,
                            !.total_deductions = total_deductions,
                            !.panel = bonus_panel(cumulative_profit,
                                                  total_deductions)]
    /\ UNCHANGED <<file, mode, pc, records, cumulative_profit,
                   total_deductions, month_to_edit, final_summary, session,
                   out, last, ops, write_failed, written, external>>

NextBonus == BonusConsole \/ BonusDashboard

SpecBonus == InitBonus /\ [][NextBonus]_vars

-----------------------------------------------------------------------------
(* Properties.                                                             *)

\* The console is running and has not ended on an unhandled exception.
ConsoleAlive == mode = "console" /\ pc # "crashed"

\* The console is blocked on one of its prompts.
ConsoleWaiting ==
    mode = "console" /\ pc \in {"main", "new_profit", "edit_month", "edit_profit"}

Upserts == {"entry", "edit", "save"}

\* C1: in the console, after any sequence of E and M on any loaded record
\* set, cumulative_profit is the sum of actual_profit over the records and
\* total_deductions the sum of abs(performance_diff) over the records with a
\* negative performance_diff, and recalculating again changes neither.
C1_AggregatesMatchRecords ==
    ConsoleAlive =>
        /\ cumulative_profit = SumProfit(records, DOMAIN records)
        /\ total_deductions = SumDeductions(records, DOMAIN records)
        /\ recalculate_totals(records) =
               [cumulative_profit |-> cumulative_profit,
                total_deductions |-> total_deductions]

\* C1 happens: an M has just replaced the value of a month entered earlier in
\* a store of several months, and a deduction is on the books.
C1_Witness ==
    /\ ConsoleAlive
    /\ last.op = "edit"
    /\ ops >= 2
    /\ Cardinality(DOMAIN records) >= 2
    /\ total_deductions > 0
    /\ cumulative_profit # 0

\* C2: right after any upsert, every record in the store has
\* performance_diff = actual_profit - MONTHLY_TARGET, the records loaded from
\* the file included.
C2_DiffConsistentAfterUpsert ==
    last.op \in Upserts =>
        LET recs == IF mode = "console" THEN records ELSE session.records
        IN  \A m \in DOMAIN recs :
                WellFormed(recs[m]) =>
                    recs[m].performance_diff = recs[m].actual_profit - MONTHLY_TARGET

\* Every month of the configured span has a record.
YearFilled(recs) == \A m \in Months : m \in DOMAIN recs

\* C4: starting from a file only the front-ends wrote, the console's final
\* summary and the dashboard's bonus panel appear only when every month of
\* START_MONTH..END_MONTH has a record.
C4_BonusOnlyWhenYearFilled ==
    ~external =>
        /\ final_summary.shown => YearFilled(records)
        /\ page.panel.shown => YearFilled(session.records)

\* The file exists and is not what the front-ends write: no JSON, no object
\* at the top, a key that is no integer, or a record without a field.
Malformed(f) ==
    \/ f.kind \in {"invalid_json", "not_object"}
    \/ /\ f.kind = "object"
       /\ \E i \in 1..Len(f.obj) :
              ~IsNumber(f.obj[i].k) \/ ~WellFormed(f.obj[i].v)

\* C5: with a malformed file, loading ends in no unhandled error in either
\* front-end, and the front-end goes on with no records and zero aggregates.
C5_MalformedFileRecovers ==
    Malformed(file) =>
        /\ mode = "console" =>
              /\ pc # "crashed"
              /\ out \cap {"loaded", "load_warning", "no_history"} # {} =>
                    /\ records = NoRecords
                    /\ cumulative_profit = 0
                    /\ total_deductions = 0
        /\ mode = "dashboard" /\ ops = 0 =>
              /\ session.has
              /\ session.records = NoRecords
              /\ page.status = "ok"

\* The record set the running front-end holds in memory.
InMemory == IF mode = "console" THEN records ELSE session.records

\* C6: when the write of a console E or M or of a dashboard save fails, an
\* error is surfaced, the process is still there, and the in-memory records
\* (and the console's aggregates) hold the value just submitted.
C6_WriteFailureKeepsMemory ==
    (last.op \in Upserts /\ last.write # "ok") =>
        /\ last.month \in DOMAIN InMemory
        /\ InMemory[last.month].actual_profit = last.actual_profit
        /\ last.op \in {"entry", "edit"} =>
              /\ "save_error" \in out
              /\ mode = "console"
              /\ pc \in {"main", "exited"}
              /\ cumulative_profit = SumProfit(records, DOMAIN records)
              /\ total_deductions = SumDeductions(records, DOMAIN records)
        /\ last.op = "save" =>
              /\ "traceback" \in out
              /\ mode = "dashboard"
              /\ session.has
              /\ page.widgets

\* C6 happens in the console: an edit whose write failed.
C6_Witness ==
    /\ last.op = "edit"
    /\ last.write = "open_failed"
    /\ "save_error" \in out
    /\ records[last.month].actual_profit = last.actual_profit
    /\ file # Dump(records)

\* C7: a record set with integer month keys, written by json.dump and read
\* back by either front-end's loader, comes back with the same integer keys
\* and the same (actual_profit, performance_diff) for each; so does the file
\* a front-end has in fact written.
C7_RoundTrip ==
    /\ (mode \in {"console", "dashboard"} /\ ~RaisesKeyError(InMemory)) =>
          /\ load_data(Dump(InMemory)) = [status |-> "ok", records |-> InMemory]
          /\ Tracker_load_data(Dump(InMemory)).status \in {"ok"}
          /\ Tracker_load_data(Dump(InMemory)).records = InMemory
    /\ (written.any /\ ~RaisesKeyError(written.records)) =>
          /\ load_data(file) = [status |-> "ok", records |-> written.records]
          /\ Tracker_load_data(file).records = written.records

\* C7 happens across front-ends: the console has loaded a file that only the
\* dashboard can have written (the last month alone), key "12" read as 12.
C7_Witness ==
    /\ ~external
    /\ mode = "console"
    /\ "loaded" \in out
    /\ written.any
    /\ records = written.records
    /\ DOMAIN records = {END_MONTH}
    /\ file.obj[1].k = <<"1", "2">>

\* What invalid input must leave alone.
StoredStateUnchanged ==
    UNCHANGED <<records, cumulative_profit, total_deductions, file>>

\* Text that is no number: empty, or with a character that is no digit
\* after an optional sign.
NotNumeric(text) ==
    \/ text \in {<<>>, <<"-">>, <<"+">>}
    \/ \E i \in 1..Len(text) :
          text[i] \notin {"0", "1", "2", "3", "4", "5", "6", "7", "8", "9"}
          /\ ~(i = 1 /\ text[i] \in {"-", "+"})

\* C8: in the console an unrecognised command, M on an empty store, a month
\* that is no number, a month without a record and a profit that is no
\* number leave records, aggregates and file as they were; the profit prompt
\* is repeated, the other cases return to the main prompt.
C8_InvalidInputChangesNothing ==
    [][ /\ \A text \in CommandInputs :
              (/\ ConsoleCommand(text)
               /\ \/ text \notin {<<"E">>, <<"e">>, <<"M">>, <<"m">>, <<"Q">>, <<"q">>}
                  \/ (text \in {<<"M">>, <<"m">>} /\ records = NoRecords))
              => (StoredStateUnchanged /\ pc' = "main")
        /\ \A text \in MonthInputs :
              (/\ ConsoleEditMonth(text)
               /\ \/ NotNumeric(text)
                  \/ \A m \in DOMAIN records : IntToStr(m) # text)
              => (StoredStateUnchanged /\ pc' = "main")
        /\ \A text \in ProfitInputs, outcome \in WriteOutcomes :
              (ConsoleProfit(text, outcome) /\ NotNumeric(text))
              => (StoredStateUnchanged /\ pc' = pc)
      ]_vars

\* C8 happens: a profit that is no number has just been refused while
\* editing a month of a non-empty store.
C8_Witness ==
    /\ mode = "console"
    /\ pc = "edit_profit"
    /\ out = {"invalid_profit"}
    /\ records # NoRecords
    /\ ops >= 1

\* C9: the dashboard's default month is one without a record while a month
\* of the span has none, and START_MONTH once every month has one.
C9_DefaultIsNextUnfilled ==
    (mode = "dashboard" /\ page.widgets /\ last.op # "save") =>
        LET default == all_months[page.next_month_index + 1]
        IN  IF YearFilled(session.records)
            THEN default = START_MONTH
            ELSE default \notin DOMAIN session.records

\* C10: in a session without a write failure, after every console E or M and
\* every dashboard save the file holds exactly the in-memory record set, and
\* wherever the front-end waits for input a fresh load of the file returns
\* the session's records.
C10_FileFollowsMemory ==
    ~write_failed =>
        /\ last.op \in Upserts => file = Dump(InMemory)
        /\ ConsoleWaiting =>
              /\ Tracker_load_data(file).status # "crash"
              /\ Tracker_load_data(file).records = records
        /\ (mode = "dashboard" /\ session.has) =>
              load_data(file) = [status |-> "ok", records |-> session.records]

\* C10 happens: a save replaced a file that held other content.
C10_Witness ==
    /\ ~write_failed
    /\ external
    /\ last.op = "save"
    /\ ops >= 2
    /\ file = Dump(session.records)
    /\ Len(file.obj) >= 3

\* C3: below ANNUAL_TARGET the result is not eligible with nothing refunded
\* and no bonus; from ANNUAL_TARGET on, clawback is total_deductions,
\* surplus_bonus is SURPLUS_BONUS_AMOUNT for every whole
\* SURPLUS_BONUS_THRESHOLD above the target, total_bonus is their sum
\* (2,450,001 with deductions 5,000 gives 10,000 and 15,000); the console
\* and the dashboard agree.
BonusAsSpecified(report, cumulative, deductions) ==
    IF cumulative < ANNUAL_TARGET
    THEN /\ ~report.eligible
         /\ report.clawback = 0
         /\ report.surplus_bonus = 0
         /\ report.total_bonus = 0
    ELSE /\ report.eligible
         /\ report.clawback = deductions
         /\ \E tiers \in 0..(MaxTiers + 1) :
               /\ tiers * SURPLUS_BONUS_THRESHOLD <= cumulative - ANNUAL_TARGET
               /\ cumulative - ANNUAL_TARGET < (tiers + 1) * SURPLUS_BONUS_THRESHOLD
               /\ report.surplus_bonus = tiers * SURPLUS_BONUS_AMOUNT
         /\ report.total_bonus = report.clawback + report.surplus_bonus

C3_BonusFormula ==
    /\ final_summary.shown =>
          BonusAsSpecified(final_summary, cumulative_profit, total_deductions)
    /\ page.panel.shown =>
          BonusAsSpecified(page.panel, cumulative_profit, total_deductions)
    /\ (final_summary.shown /\ page.panel.shown) => final_summary = page.panel
    /\ (/\ final_summary.shown
        /\ cumulative_profit = 2450001
        /\ total_deductions = 5000)
       => (final_summary.surplus_bonus = 10000 /\ final_summary.total_bonus = 15000)

\* C3 happens: both front-ends have reported on 2,450,001 with 5,000.
C3_Witness ==
    /\ final_summary.shown
    /\ page.panel.shown
    /\ cumulative_profit = 2450001
    /\ total_deductions = 5000
    /\ page.panel.total_bonus = 15000

====
